---- MODULE Spec2Model ----
(***************************************************************************)
(* A model of VaaniCare's government scheme finder                         *)
(* (src/government/government.py): the query builder build_queries, the    *)
(* allow-list filter over ALLOWED_DOMAINS and the aggregation loop of      *)
(* duckduckgo_scheme_search, run against a search provider whose answers   *)
(* (result lists or errors) are chosen nondeterministically.               *)
(*                                                                         *)
(* Python strings are TLA+ strings; "a in b" on strings is Contains.       *)
(* A provider result is a function from some of the keys "href", "title",  *)
(* "body" to strings, so that a key can be missing. The dict aggregated is *)
(* a sequence of [key, value] pairs in insertion order.                    *)
(***************************************************************************)
EXTENDS Integers, Sequences, FiniteSets, TLC

VARIABLES
    user,        \* the profile passed to duckduckgo_scheme_search
    pc,          \* position in duckduckgo_scheme_search
    queries,     \* the list build_queries returned
    qi,          \* index in queries of the current iteration of the outer loop
    pending,     \* results of the current ddgs.text call not yet iterated
    aggregated,  \* the dict aggregated
    session,     \* the DDGS() context manager: "unopened", "open", "closed"
    error,       \* the exception propagating out of the call, or NoError
    retval,      \* empty while nothing was returned, then the one-element
                 \* tuple holding the returned list
    calls,       \* history: every ddgs.text call, in order
    returned,    \* history: every result the provider returned, in order
    probe_url,   \* input of the allow-list filter taken alone
    probe_ok     \* empty before the filter ran on probe_url, then the one-element
                 \* tuple holding whether the filter accepted it

vars == <<user, pc, queries, qi, pending, aggregated, session, error, retval,
          calls, returned, probe_url, probe_ok>>

-----------------------------------------------------------------------------
(* Bounds of the model *)

\* ddgs.text returns at most this many results for one query
MaxResultsPerQuery == 2

\* the provider returns at most this many results over one aggregation run
MaxTotalResults == 3

\* a url given to the filter alone is made of at most this many pieces
MaxUrlParts == 3

-----------------------------------------------------------------------------
(* Python built-ins *)

Min(a, b) == IF a <= b THEN a ELSE b

\* sub in s, for two strings
Contains(s, sub) ==
    \E i \in 1..(Len(s) - Len(sub) + 1) : SubSeq(s, i, i + Len(sub) - 1) = sub

\* r.get(k, d)
Get(r, k, d) == IF k \in DOMAIN r THEN r[k] ELSE d

\* k in d, for a dict d
DictHas(d, k) == \E i \in 1..Len(d) : d[i].key = k

\* list(d.values())
DictValues(d) == [i \in 1..Len(d) |-> d[i].value]

\* d = {k: v}: the dict is replaced by a one-entry dict
DictSetFresh(d, k, v) == <<[key |-> k, value |-> v]>>

\* d[k] = v: a present key keeps its place, a new key goes last
DictSet(d, k, v) ==
    IF DictHas(d, k)
    THEN [i \in 1..Len(d) |-> IF d[i].key = k THEN [key |-> k, value |-> v] ELSE d[i]]
    ELSE Append(d, [key |-> k, value |-> v])

\* d.pop(k, None)
DictPop(d, k) == SelectSeq(d, LAMBDA e : e.key # k)

-----------------------------------------------------------------------------
(* government.py *)

\* ALLOWED_DOMAINS without its first entry
ALLOWED_DOMAINS_NoGovIn ==
    << "kerala.gov.in", "scholarships.gov.in", "mygov.in", "india.gov.in",
       "cdc.kerala.gov.in", "dcescholarship.kerala.gov.in" >>

ALLOWED_DOMAINS ==
    << "gov.in", "kerala.gov.in", "scholarships.gov.in", "mygov.in",
       "india.gov.in", "cdc.kerala.gov.in", "dcescholarship.kerala.gov.in" >>

\* build_queries with the second query built from the occupation
build_queries_Occupation(u) ==
    << u.state \o " student scholarship government",
       u.state \o " " \o u.occupation \o " scholarship government",
       "Central sector scholarship income government",
       u.state \o " higher education scholarship official" >>

build_queries(u) ==
    << u.state \o " student scholarship government",
       u.state \o " " \o u.category \o " scholarship government",
       "Central sector scholarship income government",
       u.state \o " higher education scholarship official" >>

\* the filter turned off
AllowedAll(url) == TRUE

\* any(domain in url for domain in ALLOWED_DOMAINS)
Allowed(url) ==
    \E i \in 1..Len(ALLOWED_DOMAINS) : Contains(url, ALLOWED_DOMAINS[i])

\* the dict entry built for result r
Entry(r, url, query) ==
    [title |-> Get(r, "title", ""), url |-> url,
     snippet |-> Get(r, "body", ""), source_query |-> query]

\* the accumulator keyed by title instead of url
AccumulateByTitle(agg, r, url, query) ==
    IF ~DictHas(agg, Get(r, "title", ""))
    THEN DictSet(agg, Get(r, "title", ""), Entry(r, url, query))
    ELSE agg

\* the accumulator without the membership test: a later occurrence overwrites
AccumulateOverwrite(agg, r, url, query) ==
    DictSet(agg, url, Entry(r, url, query))

\* the accumulator moving the entry of a repeated url to the end
AccumulateMoveToEnd(agg, r, url, query) ==
    IF ~DictHas(agg, url)
    THEN DictSet(agg, url, Entry(r, url, query))
    ELSE LET old == CHOOSE e \in {agg[i] : i \in 1..Len(agg)} : e.key = url
         IN  DictSet(DictPop(agg, url), url, old.value)

\* if url not in aggregated: aggregated[url] = {...}
Accumulate(agg, r, url, query) ==
    IF ~DictHas(agg, url)
    THEN DictSet(agg, url, Entry(r, url, query))
    ELSE agg

-----------------------------------------------------------------------------
(* The environment: profiles and the search provider *)

NoError == "none"

ProviderErrors == {"RatelimitException", "TimeoutException"}

\* profiles of the aggregation runs
Users ==
    { [age |-> 17, gender |-> "F", state |-> "Kerala", income_bracket |-> "low",
       occupation |-> "student", category |-> "OBC"],
      [age |-> 40, gender |-> "M", state |-> "Goa", income_bracket |-> "high",
       occupation |-> "farmer", category |-> "student"] }

\* profiles given to build_queries alone
Profiles ==
    [age : {17, 40}, gender : {"F", "M"}, state : {"Kerala", "Goa", ""},
     income_bracket : {"low", "high"}, occupation : {"student", "farmer"},
     category : {"OBC", "student", ""}]

\* results the provider may return
Results ==
    { [href |-> "https://scholarships.gov.in/x", title |-> "A", body |-> "b"],
      [href |-> "https://scholarships.gov.in/x", title |-> "B"],
      [href |-> "https://kerala.gov.in/y", body |-> "d"],
      [href |-> "https://example.com/x", title |-> "D", body |-> "e"],
      [href |-> "", title |-> "E", body |-> "f"],
      [title |-> "F", body |-> "g"] }

\* the lists of at most n results
ResultLists(n) == UNION {[1..k -> Results] : k \in 0..n}

\* pieces urls are made of
UrlPieces ==
    { "https://", "gov", ".in", "gov.in", "GOV.IN", "mygov.in", "kerala.",
      ".evil.com", "/x", "nic.in" }

RECURSIVE UrlsOf(_)
UrlsOf(n) ==
    IF n = 0 THEN {""}
    ELSE LET S == UrlsOf(n - 1) IN S \cup {s \o p : s \in S, p \in UrlPieces}

-----------------------------------------------------------------------------
(* duckduckgo_scheme_search, step by step *)

Init ==
    /\ user \in Users
    /\ pc = "start"
    /\ queries = <<>>
    /\ qi = 0
    /\ pending = <<>>
    /\ aggregated = <<>>
    /\ session = "unopened"
    /\ error = NoError
    /\ retval = <<>>
    /\ calls = <<>>
    /\ returned = <<>>
    /\ probe_url = ""
    /\ probe_ok = <<>>

\* queries = build_queries(user); aggregated = {}
Call ==
    /\ pc = "start"
    /\ queries' = build_queries(user)
    /\ aggregated' = <<>>
    /\ pc' = "enter"
    /\ UNCHANGED <<user, qi, pending, session, error, retval, calls, returned,
                   probe_url, probe_ok>>

\* with DDGS() as ddgs: the session is opened, the outer loop starts
Enter ==
    /\ pc = "enter"
    /\ session' = "open"
    /\ qi' = 1
    /\ pc' = "query"
    /\ UNCHANGED <<user, queries, pending, aggregated, error, retval, calls,
                   returned, probe_url, probe_ok>>

\* ddgs.text(query, max_results=...) returns a list
Text ==
    /\ pc = "query"
    /\ qi <= Len(queries)
    /\ \E rs \in ResultLists(Min(MaxResultsPerQuery, MaxTotalResults - Len(returned))) :
          /\ pending' = rs
          /\ returned' = returned \o
                 [i \in 1..Len(rs) |->
                     [qi |-> qi, pos |-> i, query |-> queries[qi], r |-> rs[i]]]
    /\ calls' = Append(calls, [query |-> queries[qi], session |-> session,
                               outcome |-> "ok"])
    /\ pc' = "rows"
    /\ UNCHANGED <<user, queries, qi, aggregated, session, error, retval,
                   probe_url, probe_ok>>

\* the error of ddgs.text caught and the query skipped
TextSwallows ==
    /\ pc = "query"
    /\ qi <= Len(queries)
    /\ \E e \in ProviderErrors :
          /\ error' = e
          /\ calls' = Append(calls, [query |-> queries[qi], session |-> session,
                                     outcome |-> e])
    /\ pending' = <<>>
    /\ pc' = "rows"
    /\ UNCHANGED <<user, queries, qi, aggregated, session, retval, returned,
                   probe_url, probe_ok>>

\* ddgs.text(query, max_results=...) raises: nothing catches it
TextRaises ==
    /\ pc = "query"
    /\ qi <= Len(queries)
    /\ \E e \in ProviderErrors :
          /\ error' = e
          /\ calls' = Append(calls, [query |-> queries[qi], session |-> session,
                                     outcome |-> e])
    /\ pc' = "unwind"
    /\ UNCHANGED <<user, queries, qi, pending, aggregated, session, retval,
                   returned, probe_url, probe_ok>>

\* one iteration of the inner loop, leaving the loop at a result without url
RowBreakOnEmpty ==
    /\ pc = "rows"
    /\ pending # <<>>
    /\ LET r == Head(pending)
           url == Get(r, "href", "")
       IN  /\ aggregated' =
                 IF url = "" THEN aggregated
                 ELSE IF ~Allowed(url) THEN aggregated
                 ELSE Accumulate(aggregated, r, url, queries[qi])
           /\ pending' = IF url = "" THEN <<>> ELSE Tail(pending)
    /\ UNCHANGED <<user, pc, queries, qi, session, error, retval, calls,
                   returned, probe_url, probe_ok>>

\* one iteration of the inner loop
Row ==
    /\ pc = "rows"
    /\ pending # <<>>
    /\ LET r == Head(pending)
           url == Get(r, "href", "")
       IN  aggregated' =
                 IF url = "" THEN aggregated
                 ELSE IF ~Allowed(url) THEN aggregated
                 ELSE Accumulate(aggregated, r, url, queries[qi])
    /\ pending' = Tail(pending)
    /\ UNCHANGED <<user, pc, queries, qi, session, error, retval, calls,
                   returned, probe_url, probe_ok>>

\* the inner loop is exhausted: the outer loop takes the next query
NextQuery ==
    /\ pc = "rows"
    /\ pending = <<>>
    /\ qi' = qi + 1
    /\ pc' = "query"
    /\ UNCHANGED <<user, queries, pending, aggregated, session, error, retval,
                   calls, returned, probe_url, probe_ok>>

\* the outer loop is exhausted: the with block is left, the session released
ExitNormal ==
    /\ pc = "query"
    /\ qi > Len(queries)
    /\ session' = "closed"
    /\ pc' = "return"
    /\ UNCHANGED <<user, queries, qi, pending, aggregated, error, retval,
                   calls, returned, probe_url, probe_ok>>

\* return list(aggregated.values())
Return ==
    /\ pc = "return"
    /\ retval' = <<DictValues(aggregated)>>
    /\ pc' = "returned"
    /\ UNCHANGED <<user, queries, qi, pending, aggregated, session, error,
                   calls, returned, probe_url, probe_ok>>

\* the exception leaves the function without the session being released
ExitOnErrorLeaks ==
    /\ pc = "unwind"
    /\ pc' = "failed"
    /\ UNCHANGED <<user, queries, qi, pending, aggregated, session, error,
                   retval, calls, returned, probe_url, probe_ok>>

\* the exception leaves the with block: the session is released, and the
\* exception leaves the function
ExitOnError ==
    /\ pc = "unwind"
    /\ session' = "closed"
    /\ pc' = "failed"
    /\ UNCHANGED <<user, queries, qi, pending, aggregated, error, retval,
                   calls, returned, probe_url, probe_ok>>

Next ==
    \/ Call
    \/ Enter
    \/ Text
    \/ TextRaises
    \/ Row
    \/ NextQuery
    \/ ExitNormal
    \/ Return
    \/ ExitOnError

Spec == Init /\ [][Next]_vars

-----------------------------------------------------------------------------
(* build_queries alone *)

InitQueries ==
    /\ user \in Profiles
    /\ pc = "start"
    /\ queries = <<>>
    /\ qi = 0
    /\ pending = <<>>
    /\ aggregated = <<>>
    /\ session = "unopened"
    /\ error = NoError
    /\ retval = <<>>
    /\ calls = <<>>
    /\ returned = <<>>
    /\ probe_url = ""
    /\ probe_ok = <<>>

NextQueries == Call

SpecQueries == InitQueries /\ [][NextQueries]_vars

-----------------------------------------------------------------------------
(* the allow-list filter alone *)

InitFilter ==
    /\ user \in Users
    /\ pc = "filter"
    /\ queries = <<>>
    /\ qi = 0
    /\ pending = <<>>
    /\ aggregated = <<>>
    /\ session = "unopened"
    /\ error = NoError
    /\ retval = <<>>
    /\ calls = <<>>
    /\ returned = <<>>
    /\ probe_url \in UrlsOf(MaxUrlParts)
    /\ probe_ok = <<>>

\* not any(domain in url for domain in ALLOWED_DOMAINS) decides to discard url
Filter ==
    /\ pc = "filter"
    /\ probe_ok = <<>>
    /\ probe_ok' = <<Allowed(probe_url)>>
    /\ UNCHANGED <<user, pc, queries, qi, pending, aggregated, session, error,
                   retval, calls, returned, probe_url>>

NextFilter == Filter

SpecFilter == InitFilter /\ [][NextFilter]_vars

-----------------------------------------------------------------------------
(* Vocabulary of the properties *)

\* the url of a returned result, as line 31 reads it
Href(x) == Get(x.r, "href", "")

\* u contains at least one string of ALLOWED_DOMAINS
InAllowList(u) ==
    \E d \in {ALLOWED_DOMAINS[i] : i \in 1..Len(ALLOWED_DOMAINS)} : Contains(u, d)

\* the returned result x has a non-empty url that passes the allow-list test
Accepted(x) == Href(x) # "" /\ InAllowList(Href(x))

\* the first result the provider returned with url u
First(u) ==
    returned[CHOOSE i \in 1..Len(returned) :
                 /\ Href(returned[i]) = u
                 /\ \A j \in 1..(i - 1) : Href(returned[j]) # u]

\* result a was returned before result b
Before(a, b) == a.qi < b.qi \/ (a.qi = b.qi /\ a.pos < b.pos)

\* the values of the accumulator so far
Entries == DictValues(aggregated)

\* the list the call returned
Output == retval[1]

HasReturned == pc = "returned" /\ retval # <<>>

StartsWith(s, p) == Len(p) <= Len(s) /\ SubSeq(s, 1, Len(p)) = p

EndsWith(s, p) == Len(p) <= Len(s) /\ SubSeq(s, Len(s) - Len(p) + 1, Len(s)) = p

NoTwoShareUrl(list) ==
    \A i, j \in 1..Len(list) : i # j => list[i].url # list[j].url

-----------------------------------------------------------------------------
(* Properties *)

\* C1: at every step of the aggregation loop each key of the accumulator
\* occurs once and maps to an entry whose url is that key, and the returned
\* list holds no two entries with the same url.
C1_UniqueUrls ==
    /\ \A i, j \in 1..Len(aggregated) :
          i # j => aggregated[i].key # aggregated[j].key
    /\ \A i \in 1..Len(aggregated) : aggregated[i].value.url = aggregated[i].key
    /\ NoTwoShareUrl(Entries)
    /\ retval # <<>> => NoTwoShareUrl(Output)

\* C1 witness: the call returned two entries after the provider returned one
\* accepted url twice.
C1_Witness ==
    /\ HasReturned
    /\ Len(Output) >= 2
    /\ \E i, j \in 1..Len(returned) :
          i < j /\ Accepted(returned[i]) /\ Href(returned[i]) = Href(returned[j])

\* C2: every entry of the accumulator and of the returned list has a url that
\* contains a string of ALLOWED_DOMAINS, and a returned result whose url
\* contains none of them is never in the accumulator (stated contrapositively:
\* a returned result whose url is in the accumulator contains one of them).
C2_OnlyAllowedDomains ==
    /\ \A i \in 1..Len(Entries) : InAllowList(Entries[i].url)
    /\ retval # <<>> => \A i \in 1..Len(Output) : InAllowList(Output[i].url)
    /\ \A k \in 1..Len(returned) :
          (\/ DictHas(aggregated, Href(returned[k]))
           \/ \E i \in 1..Len(Entries) : Entries[i].url = Href(returned[k]))
              => InAllowList(Href(returned[k]))

\* C2 witness: the call returned a non-empty list although the provider also
\* returned a url outside the allow-list.
C2_Witness ==
    /\ HasReturned
    /\ Output # <<>>
    /\ \E k \in 1..Len(returned) : Href(returned[k]) = "https://example.com/x"

\* C3: the entry of a url carries the query, title and snippet of the first
\* result the provider returned with that url, which came under the earliest
\* query that surfaced the url; this holds in every state, so no later
\* occurrence overwrites it.
C3_FirstOccurrenceWins ==
    LET ok(e) ==
            LET f == First(e.url)
            IN  /\ e.source_query = f.query
                /\ e.source_query = queries[f.qi]
                /\ e.title = Get(f.r, "title", "")
                /\ e.snippet = Get(f.r, "body", "")
                /\ \A k \in 1..Len(returned) :
                      Href(returned[k]) = e.url => f.qi <= returned[k].qi
    IN  /\ \A i \in 1..Len(Entries) : ok(Entries[i])
        /\ retval # <<>> => \A i \in 1..Len(Output) : ok(Output[i])

\* C3 witness: the call returned after one accepted url came under two
\* different queries with different titles.
C3_Witness ==
    /\ HasReturned
    /\ \E i, j \in 1..Len(returned) :
          /\ returned[i].qi < returned[j].qi
          /\ returned[i].query # returned[j].query
          /\ Accepted(returned[i])
          /\ Href(returned[i]) = Href(returned[j])
          /\ Get(returned[i].r, "title", "") # Get(returned[j].r, "title", "")

\* C4: once the provider raised, the call only fails with that error: nothing
\* is returned, the failing call is the last call made, every query before it
\* was called once and succeeded, and no later query is issued.
C4_ProviderErrorAborts ==
    /\ error # NoError =>
          /\ pc \in {"unwind", "failed"}
          /\ retval = <<>>
    /\ pc \in {"unwind", "failed"} =>
          /\ error \in ProviderErrors
          /\ Len(calls) = qi
          /\ calls[qi].outcome = error
          /\ \A i \in 1..qi : calls[i].query = queries[i]
          /\ \A i \in 1..(qi - 1) : calls[i].outcome = "ok"
    /\ \A i \in 1..Len(calls) : calls[i].outcome # "ok" => error = calls[i].outcome

\* C4 witness: the call failed on a middle query with entries accumulated.
C4_Witness ==
    /\ pc = "failed"
    /\ qi \in 2..3
    /\ aggregated # <<>>
    /\ retval = <<>>

\* C5: entry A precedes entry B in the accumulator and in the returned list
\* exactly when A's url was first returned before B's url (an earlier query, or
\* the same query at an earlier position).
C5_InsertionOrder ==
    LET ordered(list) ==
            \A i, j \in 1..Len(list) :
                i # j => (i < j <=> Before(First(list[i].url), First(list[j].url)))
    IN  /\ ordered(Entries)
        /\ retval # <<>> => ordered(Output)

\* C5 witness: the call returned two entries after the url of the first was
\* returned again later than the url of the second.
C5_Witness ==
    /\ HasReturned
    /\ Len(Output) >= 2
    /\ \E k \in 1..Len(returned) :
          /\ Href(returned[k]) = Output[1].url
          /\ Before(First(Output[2].url), returned[k])

\* C6: once the with block is left, normally or by an error, the session is
\* closed, and every provider call was made with the session open.
C6_SessionReleased ==
    /\ pc \in {"return", "returned", "failed"} => session = "closed"
    /\ \A i \in 1..Len(calls) : calls[i].session = "open"

\* C6 witness: the call failed on a provider error after an earlier call, and
\* the session is closed.
C6_Witness ==
    /\ pc = "failed"
    /\ Len(calls) >= 2
    /\ session = "closed"

\* C7: for a profile with non-empty state and category, build_queries gives 4
\* non-empty strings: the state followed by " student scholarship government",
\* the state, a space and the category followed by " scholarship government",
\* the fixed third query, and the state followed by
\* " higher education scholarship official"; profiles with the same state and
\* category get the same queries.
C7_BuildQueries ==
    (pc = "enter" /\ user.state # "" /\ user.category # "") =>
        /\ Len(queries) = 4
        /\ \A i \in 1..Len(queries) : Len(queries[i]) > 0
        /\ StartsWith(queries[1], user.state)
        /\ EndsWith(queries[1], " student scholarship government")
        /\ Len(queries[1]) = Len(user.state) + Len(" student scholarship government")
        /\ StartsWith(queries[2], user.state)
        /\ SubSeq(queries[2], Len(user.state) + 1, Len(user.state) + 1) = " "
        /\ SubSeq(queries[2], Len(user.state) + 2,
                  Len(user.state) + 1 + Len(user.category)) = user.category
        /\ EndsWith(queries[2], " scholarship government")
        /\ Len(queries[2]) =
              Len(user.state) + 1 + Len(user.category) + Len(" scholarship government")
        /\ queries[3] = "Central sector scholarship income government"
        /\ StartsWith(queries[4], user.state)
        /\ EndsWith(queries[4], " higher education scholarship official")
        /\ Len(queries[4]) =
              Len(user.state) + Len(" higher education scholarship official")
        /\ (user.state = "Kerala" /\ user.category = "OBC") =>
               queries = << "Kerala student scholarship government",
                            "Kerala OBC scholarship government",
                            "Central sector scholarship income government",
                            "Kerala higher education scholarship official" >>
        /\ \A u \in Profiles :
               (u.state = user.state /\ u.category = user.category) =>
                   build_queries(u) = queries

\* C7 witness: the queries of a Kerala / OBC profile were built.
C7_Witness ==
    /\ pc = "enter"
    /\ user.state = "Kerala"
    /\ user.category = "OBC"
    /\ user.occupation = "farmer"
    /\ queries[2] = "Kerala OBC scholarship government"

\* C8: no entry has an empty url; a call that returns raised no error, and
\* every accepted result that came after a result with an empty or missing
\* url, in the same query or a later one, has its url in the returned list.
C8_EmptyUrlSkipped ==
    /\ \A i \in 1..Len(Entries) : Entries[i].url # "" /\ aggregated[i].key # ""
    /\ (error # NoError /\ calls # <<>>) => calls[Len(calls)].outcome = error
    /\ HasReturned =>
          /\ error = NoError
          /\ \A i \in 1..Len(Output) : Output[i].url # ""
          /\ \A i, j \in 1..Len(returned) :
                (i < j /\ Href(returned[i]) = "" /\ Accepted(returned[j])) =>
                    \E k \in 1..Len(Output) : Output[k].url = Href(returned[j])

\* C8 witness: the call returned after one query gave a result without href,
\* then a result with an empty href, then an accepted result.
C8_Witness ==
    /\ HasReturned
    /\ \E i, j, k \in 1..Len(returned) :
          /\ i < j /\ j < k
          /\ "href" \notin DOMAIN returned[i].r
          /\ "href" \in DOMAIN returned[j].r /\ returned[j].r["href"] = ""
          /\ returned[j].qi = returned[k].qi
          /\ Accepted(returned[k])
          /\ \E n \in 1..Len(Output) : Output[n].url = Href(returned[k])

\* C9: when the call returns, the urls of the returned list are exactly the
\* non-empty urls that pass the allow-list test among all results returned.
C9_Complete ==
    HasReturned =>
        {Output[i].url : i \in 1..Len(Output)} =
            {Href(returned[k]) : k \in {n \in 1..Len(returned) : Accepted(returned[n])}}

\* C9 witness: the call returned two urls that came under different queries,
\* the second of them under the last query.
C9_Witness ==
    /\ HasReturned
    /\ Len(Output) = 2
    /\ First(Output[1].url).qi = 1
    /\ First(Output[2].url).qi = 4

\* C10: every string of ALLOWED_DOMAINS contains "gov.in", and the filter
\* accepts a url exactly when the url contains "gov.in"; a url with "gov.in"
\* as a label of another domain is accepted, one in upper case is rejected.
C10_GovInDecides ==
    /\ \A i \in 1..Len(ALLOWED_DOMAINS) : Contains(ALLOWED_DOMAINS[i], "gov.in")
    /\ probe_ok # <<>> =>
          /\ probe_ok[1] = Contains(probe_url, "gov.in")
          /\ probe_url = "https://gov.in.evil.com" => probe_ok[1]
          /\ probe_url = ".evil.com/xgov.in" => probe_ok[1]
          /\ probe_url = "https://GOV.IN" => ~probe_ok[1]
          /\ probe_url = "https://kerala.GOV.IN" => ~probe_ok[1]

\* C10 witness: the filter accepted a url of another domain that has "gov.in"
\* as a label.
C10_Witness ==
    /\ probe_url = "https://gov.in.evil.com"
    /\ probe_ok = <<TRUE>>

====
